---- MODULE Spec2Model ----
(***************************************************************************)
(* Model of the vcf_to_bed converter (src/rust/ensembl/vcf_to_bed) of      *)
(* ensembl-variation-pipelines: the per-record skip rules, the most severe *)
(* consequence selection, the end computation and the streaming            *)
(* Line::merge accumulator with its output file.                           *)
(*                                                                         *)
(* Strings are sequences of tokens.  The delimiter characters "|", "&",    *)
(* ";", " " and "/" are always tokens of their own, every other token is a run of   *)
(* non-delimiter characters, so that split() and contains() are computed   *)
(* on the text.  Reference alleles and rank strings are written one        *)
(* character per token, so that their Len is the string length.            *)
(***************************************************************************)
EXTENDS Integers, Sequences, FiniteSets, TLC

(***************************************************************************)
(* Bounds and program constants                                            *)
(***************************************************************************)
\* number of records the reader delivers before the stream ends
MaxRecords == 3

\* number of input files merge_bed is given at most
MaxFiles == 2

\* number of lines merge_bed reads at most, over all its files
MaxLines == 3

\* number of lines given to Line::merge when it is driven directly
MaxFolds == 3

\* "if ref_len > 31 { continue; }"
MaxRefLen == 31

\* initial msc_rank / the sentinel's severity_rank, and u8::MAX
U8Max == 255

(***************************************************************************)
(* String helpers                                                          *)
(***************************************************************************)
Range(s) == {s[i] : i \in DOMAIN s}

\* str::contains(d) for a one-character pattern
Contains(s, d) == \E i \in DOMAIN s : s[i] = d

\* str::split(d): always at least one part, "" splits into [""]
RECURSIVE Split(_, _)
Split(s, d) ==
    IF ~Contains(s, d) THEN <<s>>
    ELSE LET i == CHOOSE k \in DOMAIN s : s[k] = d /\ \A j \in 1..(k - 1) : s[j] # d
         IN  <<SubSeq(s, 1, i - 1)>> \o Split(SubSeq(s, i + 1, Len(s)), d)

\* Iterator::nth(n).unwrap_or(""), n counted from 0
NthOrEmpty(parts, n) == IF n + 1 <= Len(parts) THEN parts[n + 1] ELSE <<>>

\* all iteration orders of a HashSet
Orders(S) == {s \in [1..Cardinality(S) -> S] : Range(s) = S}

(***************************************************************************)
(* str::parse::<u8>(): optional "+", then one or more decimal digits,      *)
(* value at most 255; anything else is an Err (ParseErr).                  *)
(***************************************************************************)
ParseErr == -1

DigitValue(c) ==
    CASE c = "0" -> 0 [] c = "1" -> 1 [] c = "2" -> 2 [] c = "3" -> 3
      [] c = "4" -> 4 [] c = "5" -> 5 [] c = "6" -> 6 [] c = "7" -> 7
      [] c = "8" -> 8 [] c = "9" -> 9 [] OTHER -> ParseErr

RECURSIVE ParseDigits(_, _)
ParseDigits(s, acc) ==
    IF s = <<>> THEN acc
    ELSE LET d == DigitValue(Head(s))
         IN  IF d = ParseErr \/ acc * 10 + d > U8Max THEN ParseErr
             ELSE ParseDigits(Tail(s), acc * 10 + d)

ParseU8(s) ==
    LET digits == IF s # <<>> /\ Head(s) = "+" THEN Tail(s) ELSE s
    IN  IF digits = <<>> THEN ParseErr ELSE ParseDigits(digits, 0)

(***************************************************************************)
(* Lookup tables                                                           *)
(***************************************************************************)
\* const VARIANTGROUP : [(&str, u8); 45]
VARIANTGROUP == <<
    <<"frameshift_variant", 1>>, <<"inframe_deletion", 1>>,
    <<"inframe_insertion", 1>>, <<"missense_variant", 1>>,
    <<"protein_altering_variant", 1>>, <<"start_lost", 1>>,
    <<"stop_gained", 1>>, <<"stop_lost", 1>>,
    <<"splice_acceptor_variant", 2>>, <<"splice_donor_5th_base_variant", 2>>,
    <<"splice_donor_region_variant", 2>>, <<"splice_donor_variant", 2>>,
    <<"splice_polypyrimidine_tract_variant", 2>>, <<"splice_region_variant", 2>>,
    <<"3_prime_UTR_variant", 3>>, <<"5_prime_UTR_variant", 3>>,
    <<"coding_sequence_variant", 3>>, <<"incomplete_terminal_codon_variant", 3>>,
    <<"intron_variant", 3>>, <<"mature_miRNA_variant", 3>>,
    <<"NMD_transcript_variant", 3>>, <<"non_coding_transcript_exon_variant", 3>>,
    <<"non_coding_transcript_variant", 3>>, <<"start_retained_variant", 3>>,
    <<"stop_retained_variant", 3>>, <<"synonymous_variant", 3>>,
    <<"feature_elongation", 3>>, <<"feature_truncation", 3>>,
    <<"transcript_ablation", 3>>, <<"transcript_amplification", 3>>,
    <<"transcript_fusion", 3>>, <<"transcript_translocation", 3>>,
    <<"regulatory_region_variant", 4>>, <<"TF_binding_site_variant", 4>>,
    <<"regulatory_region_ablation", 4>>, <<"regulatory_region_amplification", 4>>,
    <<"regulatory_region_fusion", 4>>, <<"regulatory_region_translocation", 4>>,
    <<"TFBS_ablation", 4>>, <<"TFBS_amplification", 4>>,
    <<"TFBS_fusion", 4>>, <<"TFBS_translocation", 4>>,
    <<"upstream_gene_variant", 5>>, <<"downstream_gene_variant", 5>>,
    <<"intergenic_variant", 5>> >>

\* the HashMap built from VARIANTGROUP; keys are strings (token sequences)
variant_groups ==
    [k \in {<<VARIANTGROUP[i][1]>> : i \in DOMAIN VARIANTGROUP} |->
        LET i == CHOOSE j \in DOMAIN VARIANTGROUP : <<VARIANTGROUP[j][1]>> = k
        IN  VARIANTGROUP[i][2]]

\* the severity JSON file of the run (term -> rank string): two terms of
\* equal rank, a less severe one, one of rank 255 and one whose rank string
\* does not fit a u8.  "foo_variant" (used by the records) is not a key.
severity ==
    [k \in {<<"missense_variant">>, <<"stop_gained">>, <<"intron_variant">>,
            <<"intergenic_variant">>, <<"transcript_ablation">>} |->
        CASE k = <<"missense_variant">>    -> <<"3">>
          [] k = <<"stop_gained">>         -> <<"3">>
          [] k = <<"intron_variant">>      -> <<"5">>
          [] k = <<"intergenic_variant">>  -> <<"2", "5", "5">>
          [] k = <<"transcript_ablation">> -> <<"3", "0", "0">>]

\* HashMap::get(key).unwrap_or(default)
GetOr(map, key, default) == IF key \in DOMAIN map THEN map[key] ELSE default

(***************************************************************************)
(* struct Line, Option<Line> (<<>> is None, <<l>> is Some(l))              *)
(***************************************************************************)
\* the dummy initial value of "lines" in main
SentinelLine ==
    [chromosome |-> <<>>, start |-> 1, end |-> 0, id |-> <<>>,
     variety |-> <<>>, reference |-> <<>>, alts |-> {}, group |-> 0,
     severity |-> <<>>, severity_rank |-> U8Max]

\* mutant: the reference allele is not compared
compatible_NoReference(self, other) ==
    /\ self.chromosome = other.chromosome
    /\ self.start = other.start
    /\ self.variety = other.variety

\* mutant: only a line of the same identifier is compatible
compatible_SameId(self, other) ==
    /\ self.chromosome = other.chromosome
    /\ self.start = other.start
    /\ self.variety = other.variety
    /\ self.reference = other.reference
    /\ self.id = other.id

compatible(self, other) ==
    /\ self.chromosome = other.chromosome
    /\ self.start = other.start
    /\ self.variety = other.variety
    /\ self.reference = other.reference

\* mutant: only a line of the same chromosome is taken as redundant
redundant_SameChromosome(self, other) ==
    /\ self.id = other.id
    /\ self.variety # other.variety
    /\ self.chromosome = other.chromosome

redundant(self, other) ==
    /\ self.id = other.id
    /\ self.variety # other.variety

\* mutant: a candidate of equal rank replaces group, label and rank
MergeCompatible_TieLast(self, more) ==
    LET better == more.severity_rank <= self.severity_rank
        longer == better /\ more.end > self.end
    IN  [self EXCEPT
            !.alts = self.alts \cup more.alts,
            !.end = IF longer THEN more.end ELSE self.end,
            !.variety = IF longer THEN more.variety ELSE self.variety,
            !.group = IF better THEN more.group ELSE self.group,
            !.severity = IF better THEN more.severity ELSE self.severity,
            !.severity_rank = IF better THEN more.severity_rank
                              ELSE self.severity_rank]

\* mutant: the end of a more severe candidate is taken whatever it is
MergeCompatible_EndAlways(self, more) ==
    LET better == more.severity_rank < self.severity_rank
    IN  [self EXCEPT
            !.alts = self.alts \cup more.alts,
            !.end = IF better THEN more.end ELSE self.end,
            !.variety = IF better THEN more.variety ELSE self.variety,
            !.group = IF better THEN more.group ELSE self.group,
            !.severity = IF better THEN more.severity ELSE self.severity,
            !.severity_rank = IF better THEN more.severity_rank
                              ELSE self.severity_rank]

\* mutant: the group is not taken over with the label and the rank
MergeCompatible_KeepGroup(self, more) ==
    LET better == more.severity_rank < self.severity_rank
        longer == better /\ more.end > self.end
    IN  [self EXCEPT
            !.alts = self.alts \cup more.alts,
            !.end = IF longer THEN more.end ELSE self.end,
            !.variety = IF longer THEN more.variety ELSE self.variety,
            !.severity = IF better THEN more.severity ELSE self.severity,
            !.severity_rank = IF better THEN more.severity_rank
                              ELSE self.severity_rank]

\* the body of "if self.compatible(more)": the new value of self
MergeCompatible(self, more) ==
    LET better == more.severity_rank < self.severity_rank
        longer == better /\ more.end > self.end
    IN  [self EXCEPT
            !.alts = self.alts \cup more.alts,
            !.end = IF longer THEN more.end ELSE self.end,
            !.variety = IF longer THEN more.variety ELSE self.variety,
            !.group = IF better THEN more.group ELSE self.group,
            !.severity = IF better THEN more.severity ELSE self.severity,
            !.severity_rank = IF better THEN more.severity_rank
                              ELSE self.severity_rank]

\* mutant: the line is printed whatever its alleles
ShouldWrite_Always(self) == Cardinality(self.alts) >= 0

\* mutant: a line with a single allele is not printed
ShouldWrite_Several(self) == Cardinality(self.alts) > 1

\* "if self.alts.len() > 0": the current line is printed
ShouldWrite(self) == Cardinality(self.alts) > 0

\* the 9 fields of the write!, alts in the iteration order of the HashSet
WrittenLine(self, order) ==
    [chromosome |-> self.chromosome, start |-> self.start, end |-> self.end,
     id |-> self.id, variety |-> self.variety, reference |-> self.reference,
     alts |-> order, group |-> self.group, severity |-> self.severity]

\* Display of an unsigned integer: its decimal digits
RECURSIVE Dec(_)
Dec(n) ==
    LET digit == <<"0", "1", "2", "3", "4", "5", "6", "7", "8", "9">>[(n % 10) + 1]
    IN  IF n < 10 THEN <<digit>> ELSE Dec(n \div 10) \o <<digit>>

\* slice::join(d) on strings
RECURSIVE JoinWith(_, _)
JoinWith(parts, d) ==
    IF parts = <<>> THEN <<>>
    ELSE IF Len(parts) = 1 THEN parts[1]
    ELSE parts[1] \o <<d>> \o JoinWith(Tail(parts), d)

\* mutant: the alleles are separated like the fields
LineText_AltsBySpace(w) ==
    JoinWith(<<w.chromosome, Dec(w.start), Dec(w.end), w.id, w.variety,
               w.reference, JoinWith(w.alts, " "), Dec(w.group), w.severity>>, " ")

\* the text of the write!("{} {} {} {} {} {} {} {} {}\n", ...), without the
\* line terminator
LineText(w) ==
    JoinWith(<<w.chromosome, Dec(w.start), Dec(w.end), w.id, w.variety,
               w.reference, JoinWith(w.alts, "/"), Dec(w.group), w.severity>>, " ")

\* the branch Line::merge takes for "more"
MergeBranch(self, more) ==
    IF more # <<>> /\ compatible(self, more[1]) THEN "compatible"
    ELSE IF more # <<>> /\ redundant(self, more[1]) THEN "redundant"
    ELSE "flush"

\* Line::merge: the new self and the lines it may append to out (one per
\* iteration order of self.alts, or only the empty sequence)
merge(self, more) ==
    LET branch == MergeBranch(self, more)
    IN  CASE branch = "compatible" ->
               [self |-> MergeCompatible(self, more[1]), written |-> {<<>>}]
          [] branch = "redundant" ->
               [self |-> self, written |-> {<<>>}]
          [] OTHER ->
               [self |-> IF more # <<>> THEN more[1] ELSE self,
                written |-> IF ShouldWrite(self)
                            THEN {<<WrittenLine(self, o)>> : o \in Orders(self.alts)}
                            ELSE {<<>>}]

(***************************************************************************)
(* The input: the records the VCF reader can deliver                       *)
(***************************************************************************)
\* a reference allele of n bases
Bases(n) == [i \in 1..n |-> "A"]

\* one CSQ entry with the consequence terms in field 1 and the variant class
\* in field 21 (fields counted from 0, separated by "|")
Annotation(terms, class) ==
    <<"T", "|">> \o terms \o [i \in 1..20 |-> "|"] \o class

\* a CSQ entry that stops after field 1
ShortAnnotation(terms) == <<"T", "|">> \o terms

Rec(chromosome, position, id, reference, alternative, info) ==
    [chromosome |-> chromosome, position |-> position, id |-> id,
     reference |-> reference, alternative |-> alternative, info |-> info]

\* reader.empty_record()
EmptyRecord == Rec(<<>>, 0, <<>>, <<>>, <<>>, <<>>)

SNV == <<"SNV">>
Csq(entries) == <<entries>>

Records == {
    \* rs1, SNV at 1:100, rank 5 then rank 3 for another allele
    Rec(<<"1">>, 100, <<<<"rs1">>>>, <<"A">>, <<<<"G">>>>,
        Csq(<<Annotation(<<"intron_variant">>, SNV)>>)),
    Rec(<<"1">>, 100, <<<<"rs1">>>>, <<"A">>, <<<<"T">>>>,
        Csq(<<Annotation(<<"missense_variant">>, SNV)>>)),
    \* two transcripts, "&"-joined terms, two terms of rank 3, two alleles
    Rec(<<"1">>, 100, <<<<"rs2">>>>, <<"A">>, <<<<"G">>, <<"T">>>>,
        Csq(<<Annotation(<<"intron_variant", "&", "stop_gained">>, SNV),
              Annotation(<<"missense_variant">>, SNV)>>)),
    \* rs1 again with another variety and a two-base reference
    Rec(<<"1">>, 100, <<<<"rs1">>>>, <<"A", "T">>, <<<<"A">>>>,
        Csq(<<Annotation(<<"intron_variant">>, <<"deletion">>)>>)),
    \* rs1 again on another chromosome and position, class from the
    \* transcript of the most severe term
    Rec(<<"2">>, 101, <<<<"rs1">>>>, <<"A", "T">>, <<<<"G">>>>,
        Csq(<<Annotation(<<"intron_variant">>, <<"deletion">>),
              Annotation(<<"missense_variant">>, <<"sequence_alteration">>)>>)),
    \* an insertion with a three-base reference, two ids, a term that is
    \* not in the severity table next to one that is
    Rec(<<"1">>, 101, <<<<"rs1">>, <<"rs3">>>>, <<"A", "T", "G">>, <<<<"ATGC">>>>,
        Csq(<<Annotation(<<"intron_variant", "&", "foo_variant">>, <<"insertion">>)>>)),
    \* an SNV class with a two-base reference
    Rec(<<"1">>, 100, <<<<"rs2">>>>, <<"A", "T">>, <<<<"G">>>>,
        Csq(<<Annotation(<<"missense_variant">>, SNV)>>)),
    \* reference of 31 bases (kept) and of 32 bases (skipped)
    Rec(<<"1">>, 101, <<<<"rs3">>>>, Bases(MaxRefLen), <<<<"A">>>>,
        Csq(<<Annotation(<<"intron_variant">>, <<"deletion">>)>>)),
    Rec(<<"1">>, 101, <<<<"rs3">>>>, Bases(MaxRefLen + 1), <<<<"A">>>>,
        Csq(<<Annotation(<<"intron_variant">>, <<"deletion">>)>>)),
    \* an identifier holding two ids
    Rec(<<"1">>, 100, <<<<"rs1", ";", "rs2">>>>, <<"A">>, <<<<"G">>>>,
        Csq(<<Annotation(<<"missense_variant">>, SNV)>>)),
    \* no CSQ key, and a CSQ key without entries
    Rec(<<"1">>, 100, <<<<"rs1">>>>, <<"A">>, <<<<"G">>>>, <<>>),
    Rec(<<"1">>, 100, <<<<"rs1">>>>, <<"A">>, <<<<"G">>>>, Csq(<<>>)),
    \* every term of rank 255
    Rec(<<"1">>, 100, <<<<"rs2">>>>, <<"A">>, <<<<"C">>>>,
        Csq(<<Annotation(<<"intergenic_variant">>, SNV)>>)),
    \* a term whose rank string does not parse
    Rec(<<"1">>, 101, <<<<"rs3">>>>, <<"A">>, <<<<"G">>>>,
        Csq(<<Annotation(<<"intron_variant", "&", "transcript_ablation">>, SNV)>>)),
    \* a CSQ entry without a variant class field
    Rec(<<"1">>, 101, <<<<"rs4">>>>, <<"A">>, <<<<"G">>>>,
        Csq(<<ShortAnnotation(<<"intron_variant">>)>>)),
    \* no identifier, and an empty reference
    Rec(<<"1">>, 101, <<>>, <<"A">>, <<<<"G">>>>,
        Csq(<<Annotation(<<"missense_variant">>, SNV)>>)),
    Rec(<<"2">>, 101, <<<<"rs4">>>>, <<>>, <<<<"G">>>>,
        Csq(<<Annotation(<<"intron_variant">>, <<"deletion">>)>>))
}

(***************************************************************************)
(* main: the per-record work                                               *)
(***************************************************************************)
\* reference.len() as u64
RefLen(r) == Len(r.reference)

\* mutant: a reference of 32 characters is kept
RefTooLong_OffByOne(r) == RefLen(r) > MaxRefLen + 1

\* "if ref_len > 31 { continue; }"
RefTooLong(r) == RefLen(r) > MaxRefLen

\* "if id.contains(";") { multiple_ids = true; }" over all ids
MultipleIds(r) == \E i \in DOMAIN r.id : Contains(r.id[i], ";")

\* field n of every CSQ entry, or vec![] without a CSQ key
InfoField(r, n) ==
    IF r.info = <<>> THEN <<>>
    ELSE [i \in DOMAIN r.info[1] |-> NthOrEmpty(Split(r.info[1][i], "|"), n)]

\* let csq = ... nth(1) ..., let class = ... nth(21) ...
CsqOf(r) == InfoField(r, 1)
ClassOf(r) == InfoField(r, 21)

\* "if csq.is_empty() { continue; }"
CsqEmpty(r) == CsqOf(r) = <<>>

\* the record is dropped before the id x alt loop
SkipRecord(r) == RefTooLong(r) \/ MultipleIds(r) \/ CsqEmpty(r)

\* csq.iter().zip(class.iter()) with the inner csq.split("&"), flattened in
\* iteration order
RECURSIVE ZipTerms(_, _)
ZipTerms(csq, class) ==
    IF csq = <<>> \/ class = <<>> THEN <<>>
    ELSE LET terms == Split(Head(csq), "&")
         IN  [i \in DOMAIN terms |-> [csq |-> terms[i], variety_here |-> Head(class)]]
             \o ZipTerms(Tail(csq), Tail(class))

\* the values of the loop variables before the first term
NoConsequence ==
    [variant_group |-> 0, most_severe_csq |-> <<>>, msc_rank |-> U8Max,
     variety |-> <<>>, panic |-> FALSE]

\* severity.get(csq).unwrap_or("0").parse::<u8>()
SeverityHere(csq) == ParseU8(GetOr(severity, csq, <<"0">>))

\* "if severity_here < msc_rank"
MoreSevere(severity_here, msc_rank) == severity_here < msc_rank

\* mutant: a term whose rank does not parse is passed over
RECURSIVE MostSevere_IgnoreErr(_, _)
MostSevere_IgnoreErr(terms, acc) ==
    IF terms = <<>> THEN acc
    ELSE LET t == Head(terms)
             severity_here == SeverityHere(t.csq)
         IN  MostSevere_IgnoreErr(Tail(terms),
                IF severity_here # ParseErr /\ MoreSevere(severity_here, acc.msc_rank)
                THEN [variant_group |-> GetOr(variant_groups, t.csq, 0),
                      most_severe_csq |-> t.csq,
                      msc_rank |-> severity_here,
                      variety |-> t.variety_here,
                      panic |-> FALSE]
                ELSE acc)

\* the two nested loops over the terms; panic is the failed unwrap()
RECURSIVE MostSevere(_, _)
MostSevere(terms, acc) ==
    IF terms = <<>> \/ acc.panic THEN acc
    ELSE LET t == Head(terms)
             severity_here == SeverityHere(t.csq)
         IN  IF severity_here = ParseErr THEN [acc EXCEPT !.panic = TRUE]
             ELSE MostSevere(Tail(terms),
                    IF MoreSevere(severity_here, acc.msc_rank)
                    THEN [variant_group |-> GetOr(variant_groups, t.csq, 0),
                          most_severe_csq |-> t.csq,
                          msc_rank |-> severity_here,
                          variety |-> t.variety_here,
                          panic |-> FALSE]
                    ELSE acc)

Classify(r) == MostSevere(ZipTerms(CsqOf(r), ClassOf(r)), NoConsequence)

\* mutant: an insertion gets the end of the reference span
\* mutant: an insertion lies between two bases, its end before its start
EndOf_InsertionBetween(r, variety) ==
    IF variety = <<"SNV">> THEN r.position
    ELSE IF variety = <<"insertion">> THEN r.position - 1
    ELSE r.position + RefLen(r) - 1

EndOf_NoInsertion(r, variety) ==
    IF variety = <<"SNV">> THEN r.position
    ELSE r.position + RefLen(r) - 1

\* "let mut end = ..." (positions of the records are at least 1, so the
\* u64 arithmetic does not wrap)
EndOf(r, variety) ==
    IF variety = <<"SNV">> THEN r.position
    ELSE IF variety = <<"insertion">> THEN r.position + 1
    ELSE r.position + RefLen(r) - 1

\* "let more = Line { ... }" for one id and one alt
Candidate(r, id, alt) ==
    LET c == Classify(r)
    IN  [chromosome |-> r.chromosome, start |-> r.position,
         end |-> EndOf(r, c.variety), id |-> id, variety |-> c.variety,
         reference |-> r.reference, alts |-> {alt}, group |-> c.variant_group,
         severity |-> c.most_severe_csq, severity_rank |-> c.msc_rank]

\* the (id, alt) pairs in loop order, for one iteration order of alts
Pairs(ids, altOrder) ==
    [k \in 1..(Len(ids) * Len(altOrder)) |->
        <<ids[((k - 1) \div Len(altOrder)) + 1],
          altOrder[((k - 1) % Len(altOrder)) + 1]>>]

(***************************************************************************)
(* State                                                                   *)
(***************************************************************************)
VARIABLES
    pc,        \* "read": at the while condition, "loop": in the id x alt
               \* loop, "done": main returned Ok, "aborted": Err or panic
    nread,     \* number of records read so far
    record,    \* the record variable of main
    pending,   \* the (id, alt) pairs the loops still have to visit
    lines,     \* the current Line
    out,       \* the lines written to the output file
    hist,      \* history: the candidates given to merge and their branch
    \* the merge_bed program (its own process, run on written files)
    mb_pc,         \* "idle": not run, "while": at the while condition,
                   \* "lines": in the for loop over a file's lines,
                   \* "done": main returned, "aborted": panic
    args_len,      \* args.len()
    file_counter,  \* file_counter
    current_ids,   \* current_ids
    bed_out,       \* the lines written to args[1]
    mb_read        \* history: the lines read so far, with their file

mbvars == <<mb_pc, args_len, file_counter, current_ids, bed_out, mb_read>>

vars == <<pc, nread, record, pending, lines, out, hist,
          mb_pc, args_len, file_counter, current_ids, bed_out, mb_read>>

\* vcf_to_bed before its while loop
VcfInit ==
    /\ pc = "read"
    /\ nread = 0
    /\ record = EmptyRecord
    /\ pending = <<>>
    /\ lines = SentinelLine
    /\ out = <<>>
    /\ hist = <<>>

\* merge_bed is not run
MbIdle ==
    /\ mb_pc = "idle"
    /\ args_len = 2
    /\ file_counter = 2
    /\ current_ids = {}
    /\ bed_out = <<>>
    /\ mb_read = <<>>

Init == VcfInit /\ MbIdle

\* reader.next_record() returns Ok(true): the skip rules, then the loops
\* start over the ids and over alts in the HashSet's order
NextRecord ==
    /\ pc = "read"
    /\ nread < MaxRecords
    /\ \E r \in Records :
        /\ record' = r
        /\ IF SkipRecord(r)
           THEN pending' = <<>>
           ELSE \E o \in Orders(Range(r.alternative)) : pending' = Pairs(r.id, o)
    /\ nread' = nread + 1
    /\ pc' = IF pending' = <<>> THEN "read" ELSE "loop"
    /\ UNCHANGED <<lines, out, hist>>
    /\ UNCHANGED mbvars

\* reader.next_record() returns Err (or a field is not UTF-8): main ends
\* without the final merge
ReadFails ==
    /\ pc = "read"
    /\ nread < MaxRecords
    /\ pc' = "aborted"
    /\ UNCHANGED <<nread, record, pending, lines, out, hist>>
    /\ UNCHANGED mbvars

\* one pass of the inner loop: build the candidate and merge it
Fold ==
    /\ pc = "loop"
    /\ LET id == Head(pending)[1]
           alt == Head(pending)[2]
       IN  IF Classify(record).panic
           THEN /\ pc' = "aborted"
                /\ UNCHANGED <<pending, lines, out, hist>>
           ELSE LET more == Candidate(record, id, alt)
                    m == merge(lines, <<more>>)
                IN  /\ lines' = m.self
                    /\ \E w \in m.written : out' = out \o w
                    /\ hist' = Append(hist, [cand |-> more,
                                             branch |-> MergeBranch(lines, <<more>>)])
                    /\ pending' = Tail(pending)
                    /\ pc' = IF pending' = <<>> THEN "read" ELSE "loop"
    /\ UNCHANGED <<nread, record>>
    /\ UNCHANGED mbvars

\* reader.next_record() returns Ok(false): lines.merge(None), Ok(())
EndOfStream ==
    /\ pc = "read"
    /\ LET m == merge(lines, <<>>)
       IN  /\ lines' = m.self
           /\ \E w \in m.written : out' = out \o w
    /\ pc' = "done"
    /\ UNCHANGED <<nread, record, pending, hist>>
    /\ UNCHANGED mbvars

Next == NextRecord \/ ReadFails \/ Fold \/ EndOfStream

Spec == Init /\ [][Next]_vars

(***************************************************************************)
(* Line::merge driven directly: any Line can be its argument, not only the *)
(* candidates main builds from records                                     *)
(***************************************************************************)
\* lines at 1:100 with reference A that differ in end, identifier and
\* allele, variety, and consequence (group, label, rank)
AnyLines ==
    {[chromosome |-> <<"1">>, start |-> 100, end |-> e, id |-> ia[1],
      variety |-> v, reference |-> <<"A">>, alts |-> {ia[2]},
      group |-> c[1], severity |-> c[2], severity_rank |-> c[3]] :
        e \in {100, 102},
        ia \in {<<<<"rs1">>, <<"G">>>>, <<<<"rs2">>, <<"T">>>>},
        v \in {<<"SNV">>, <<"deletion">>},
        c \in {<<1, <<"missense_variant">>, 3>>, <<3, <<"intron_variant">>, 5>>}}

\* lines.merge(Some(more), &mut out)
MergeSome ==
    /\ pc = "read"
    /\ Len(hist) < MaxFolds
    /\ \E more \in AnyLines :
        LET m == merge(lines, <<more>>)
        IN  /\ lines' = m.self
            /\ \E w \in m.written : out' = out \o w
            /\ hist' = Append(hist, [cand |-> more,
                                     branch |-> MergeBranch(lines, <<more>>)])
    /\ UNCHANGED <<pc, nread, record, pending>>
    /\ UNCHANGED mbvars

MergeNext == MergeSome \/ EndOfStream

MergeSpec == Init /\ [][MergeNext]_vars

(***************************************************************************)
(* merge_bed (nextflow/vcf_prepper/src/rust/ensembl/merge_bed)             *)
(*                                                                         *)
(* A line is its text without the line terminator, " " a token of its own. *)
(***************************************************************************)
\* the lines the input files can hold
BedLines == {
    <<"1", " ", "100", " ", "100", " ", "rs5", " ", "SNV", " ", "A", " ", "G",
      " ", "1", " ", "missense_variant">>,
    \* rs5 again, other fields
    <<"2", " ", "200", " ", "201", " ", "rs5", " ", "insertion", " ", "A", " ",
      "AT", " ", "3", " ", "intron_variant">>,
    <<"1", " ", "300", " ", "300", " ", "rs6", " ", "SNV", " ", "C", " ", "G/T",
      " ", "5", " ", "intergenic_variant">>,
    \* empty variety and consequence label
    <<"1", " ", "100", " ", "100", " ", "rs8", " ", " ", "A", " ", "C", " ",
      "0", " ">>,
    \* ten fields
    <<"1", " ", "400", " ", "400", " ", "rs7", " ", "SNV", " ", "A", " ", "G",
      " ", "1", " ", "missense_variant", " ", "x">>,
    \* four fields, and an empty line
    <<"1", " ", "100", " ", "100", " ", "rs5">>,
    <<>> }

\* line.split(" ").collect()
MbParts(line) == Split(line, " ")

\* mutant: the lines are keyed by their third field
MbId_Third(parts) == parts[3]

\* parts[3]
MbId(parts) == parts[4]

\* "if !current_ids.contains(&parts[3])"
MbIsNew(parts, ids) == MbId(parts) \notin ids

\* the write! of parts[0] to parts[8]
MbWritten(parts) == JoinWith(SubSeq(parts, 1, 9), " ")

\* merge_bed at its while loop, given 0 to MaxFiles files
MbStart ==
    /\ mb_pc = "while"
    /\ args_len \in 2..(2 + MaxFiles)
    /\ file_counter = 2
    /\ current_ids = {}
    /\ bed_out = <<>>
    /\ mb_read = <<>>

MergeBedInit == VcfInit /\ MbStart

vcfvars == <<pc, nread, record, pending, lines, out, hist>>

\* "while file_counter < args.len()" holds and the file opens
MbOpenFile ==
    /\ mb_pc = "while"
    /\ file_counter < args_len
    /\ mb_pc' = "lines"
    /\ UNCHANGED <<args_len, file_counter, current_ids, bed_out, mb_read>>
    /\ UNCHANGED vcfvars

\* File::open(...).unwrap() or line.unwrap() panics
MbIoFails ==
    /\ \/ mb_pc = "while" /\ file_counter < args_len
       \/ mb_pc = "lines" /\ Len(mb_read) < MaxLines
    /\ mb_pc' = "aborted"
    /\ UNCHANGED <<args_len, file_counter, current_ids, bed_out, mb_read>>
    /\ UNCHANGED vcfvars

\* one pass of the for loop: a line is read, split, and written if its
\* identifier is new; indexing parts beyond its length panics
MbLine ==
    /\ mb_pc = "lines"
    /\ Len(mb_read) < MaxLines
    /\ \E line \in BedLines :
        LET parts == MbParts(line)
        IN  /\ mb_read' = Append(mb_read, [file |-> file_counter, line |-> line])
            /\ IF Len(parts) < 4
               THEN mb_pc' = "aborted" /\ UNCHANGED <<current_ids, bed_out>>
               ELSE IF ~MbIsNew(parts, current_ids)
               THEN UNCHANGED <<mb_pc, current_ids, bed_out>>
               ELSE IF Len(parts) < 9
               THEN mb_pc' = "aborted" /\ UNCHANGED <<current_ids, bed_out>>
               ELSE /\ bed_out' = Append(bed_out, MbWritten(parts))
                    /\ current_ids' = current_ids \cup {MbId(parts)}
                    /\ UNCHANGED mb_pc
    /\ UNCHANGED <<args_len, file_counter>>
    /\ UNCHANGED vcfvars

\* the lines of the file are through: "file_counter += 1"
MbEndOfFile ==
    /\ mb_pc = "lines"
    /\ file_counter' = file_counter + 1
    /\ mb_pc' = "while"
    /\ UNCHANGED <<args_len, current_ids, bed_out, mb_read>>
    /\ UNCHANGED vcfvars

\* "while file_counter < args.len()" fails: main returns
MbReturn ==
    /\ mb_pc = "while"
    /\ file_counter >= args_len
    /\ mb_pc' = "done"
    /\ UNCHANGED <<args_len, file_counter, current_ids, bed_out, mb_read>>
    /\ UNCHANGED vcfvars

MergeBedNext == MbOpenFile \/ MbIoFails \/ MbLine \/ MbEndOfFile \/ MbReturn

MergeBedSpec == MergeBedInit /\ [][MergeBedNext]_vars

(***************************************************************************)
(* Vocabulary of the properties                                            *)
(***************************************************************************)
\* the fields two lines must share to be merged
Key(l) == <<l.chromosome, l.start, l.variety, l.reference>>

\* the fields that name a line in the output
Identity(l) == <<l.chromosome, l.start, l.id, l.variety, l.reference>>

Last(s) == s[Len(s)]

\* the candidates folded so far, in order
Cands == [i \in DOMAIN hist |-> hist[i].cand]

\* positions in hist of the candidates that were installed as current
InstalledAt == {i \in DOMAIN hist : hist[i].branch = "flush"}

\* positions in hist of the candidates merged into the present current
\* interval, the one that created it included
MergedAt ==
    IF InstalledAt = {} THEN {}
    ELSE LET created == CHOOSE i \in InstalledAt : \A j \in InstalledAt : j <= i
         IN  {created} \cup
             {i \in DOMAIN hist : i > created /\ hist[i].branch = "compatible"}

\* the position of the earliest candidate of least rank among positions I
EarliestBest(I) ==
    CHOOSE i \in I :
        /\ \A j \in I : Cands[i].severity_rank <= Cands[j].severity_rank
        /\ \A j \in I : j < i => Cands[j].severity_rank > Cands[i].severity_rank

\* the candidate the inner loop is about to fold
FoldedNow == Candidate(record, Head(pending)[1], Head(pending)[2])

\* a step that folds a candidate
FoldStep == Len(hist') = Len(hist) + 1

(***************************************************************************)
(* C1: from the sentinel, folding a non-empty sequence of candidates that  *)
(* all share (chromosome, start, variety, reference) and then merge(None)  *)
(* writes exactly one line; its alleles are the union of the candidates'   *)
(* alleles, its group and consequence label those of the earliest          *)
(* candidate of least severity rank.                                       *)
(***************************************************************************)
C1_SharedKey ==
    /\ pc = "done"
    /\ hist # <<>>
    /\ \A i \in DOMAIN hist : Key(Cands[i]) = Key(Cands[1])

C1_OneLinePerSharedKey ==
    C1_SharedKey =>
        /\ Len(out) = 1
        /\ Range(out[1].alts) = UNION {Cands[i].alts : i \in DOMAIN hist}
        /\ Len(out[1].alts) = Cardinality(Range(out[1].alts))
        /\ out[1].group = Cands[EarliestBest(DOMAIN hist)].group
        /\ out[1].severity = Cands[EarliestBest(DOMAIN hist)].severity

\* three candidates or more, the first not of least rank, two of least rank
\* with different labels, more than one allele
C1_Witness ==
    /\ C1_SharedKey
    /\ EarliestBest(DOMAIN hist) > 1
    /\ \E j \in DOMAIN hist :
          /\ j > EarliestBest(DOMAIN hist)
          /\ Cands[j].severity_rank = Cands[EarliestBest(DOMAIN hist)].severity_rank
          /\ Cands[j].severity # Cands[EarliestBest(DOMAIN hist)].severity
    /\ Len(out) = 1
    /\ Len(out[1].alts) > 1

(***************************************************************************)
(* C3: no written line comes from an interval without alleles: the         *)
(* sentinel is never written, also when the stream is empty or every       *)
(* record was skipped.                                                     *)
(***************************************************************************)
C3_SentinelNeverWritten ==
    /\ \A i \in DOMAIN out :
          /\ out[i].alts # <<>>
          /\ Identity(out[i]) # Identity(SentinelLine)
    /\ (pc = "done" /\ hist = <<>>) => out = <<>>

\* the final merge ran on the sentinel after records that were all skipped
C3_Witness ==
    /\ pc = "done"
    /\ nread > 0
    /\ hist = <<>>
    /\ lines = SentinelLine

(***************************************************************************)
(* C4: whenever the current interval was created from a candidate, its     *)
(* severity_rank is the least rank of the candidates merged into it so far *)
(* (the creating one included) and its group and label are those of one    *)
(* candidate of that rank.                                                 *)
(***************************************************************************)
C4_MostSevereSoFar ==
    MergedAt # {} =>
        /\ \A i \in MergedAt : lines.severity_rank <= Cands[i].severity_rank
        /\ \E i \in MergedAt :
              /\ Cands[i].severity_rank = lines.severity_rank
              /\ Cands[i].group = lines.group
              /\ Cands[i].severity = lines.severity

\* a merged candidate replaced the rank, group and label of the creating one
C4_Witness ==
    /\ Cardinality(MergedAt) >= 2
    /\ \E i \in MergedAt :
          /\ lines.severity_rank < Cands[i].severity_rank
          /\ lines.group # Cands[i].group
          /\ hist[i].branch = "flush"
    /\ \E i \in DOMAIN hist : hist[i].branch = "redundant"

(***************************************************************************)
(* C5: folding a candidate that has the identifier of the current interval *)
(* and another variety writes nothing and leaves every field of the        *)
(* current interval as it was, whatever the candidate's chromosome, start, *)
(* reference and allele.                                                   *)
(***************************************************************************)
C5_RedundantIsNoOp ==
    [][(/\ pc = "loop"
        /\ ~Classify(record).panic
        /\ FoldedNow.id = lines.id
        /\ FoldedNow.variety # lines.variety)
       => (lines' = lines /\ out' = out)]_vars

\* a candidate was discarded that differs from the current interval in
\* chromosome, start, reference and allele as well
C5_Witness ==
    /\ hist # <<>>
    /\ Last(hist).cand.id = lines.id
    /\ Last(hist).cand.variety # lines.variety
    /\ Last(hist).cand.chromosome # lines.chromosome
    /\ Last(hist).cand.start # lines.start
    /\ Last(hist).cand.reference # lines.reference
    /\ Last(hist).cand.alts \cap lines.alts = {}

(***************************************************************************)
(* C6: the final merge(None) writes the current interval iff it has an     *)
(* allele and installs nothing; after it every interval installed from a   *)
(* candidate has been written exactly once, in the order of installation,  *)
(* and before it all installed intervals but the current one have been.    *)
(***************************************************************************)
\* the installing candidates, in order
InstalledSeq == SelectSeq(hist, LAMBDA h : h.branch = "flush")

C6_WrittenInOrder ==
    LET n == Len(InstalledSeq)
    IN  /\ Len(out) = IF pc = "done" \/ n = 0 THEN n ELSE n - 1
        /\ \A i \in DOMAIN out :
              /\ Identity(out[i]) = Identity(InstalledSeq[i].cand)
              /\ InstalledSeq[i].cand.alts \subseteq Range(out[i].alts)
        /\ n > 0 => Identity(lines) = Identity(InstalledSeq[n].cand)

C6_FinalStep ==
    (pc = "read" /\ pc' = "done") =>
        /\ lines' = lines
        /\ IF lines.alts # {}
           THEN /\ Len(out') = Len(out) + 1
                /\ SubSeq(out', 1, Len(out)) = out
                /\ Identity(Last(out')) = Identity(lines)
                /\ Range(Last(out').alts) = lines.alts
                /\ Last(out').end = lines.end
                /\ Last(out').group = lines.group
                /\ Last(out').severity = lines.severity
           ELSE out' = out

C6_FinalFlush == []C6_WrittenInOrder /\ [][C6_FinalStep]_vars

\* a finished run that wrote several lines and merged or discarded others
C6_Witness ==
    /\ pc = "done"
    /\ Len(out) >= 2
    /\ Len(hist) > Len(out)
    /\ Len(out) = Len(InstalledSeq)

(***************************************************************************)
(* C2, as stated: whenever two consecutive candidates c1, c2 differ in     *)
(* chromosome, start, variety or reference, the line of the group          *)
(* containing c1 is written during the fold of c2, before c2 becomes the   *)
(* current interval; no line of a later group is written before a line of  *)
(* an earlier group.                                                       *)
(***************************************************************************)
\* this step writes the line of the group of the last folded candidate and
\* makes the candidate folded now the current interval
C2_WritesPreviousGroup ==
    /\ Len(out') = Len(out) + 1
    /\ SubSeq(out', 1, Len(out)) = out
    /\ Key(Last(out')) = Key(Last(hist).cand)
    /\ Last(hist).cand.alts \subseteq Range(Last(out').alts)
    /\ lines' = Last(hist').cand

\* the k-th line written is the line of the k-th installed interval
C2_GroupOrder ==
    /\ Len(out) <= Len(InstalledSeq)
    /\ \A i \in DOMAIN out : Identity(out[i]) = Identity(InstalledSeq[i].cand)

C2_Differ == FoldStep /\ hist # <<>> /\ Key(Last(hist').cand) # Key(Last(hist).cand)

C2_Original ==
    [][C2_Differ => C2_WritesPreviousGroup]_vars /\ []C2_GroupOrder

(***************************************************************************)
(* C2, amended: the same, for consecutive candidates c1, c2 where c1 was   *)
(* not discarded as redundant and c2 does not carry the identifier of the  *)
(* current interval with another variety.                                  *)
(***************************************************************************)
C2_FlushOnNewGroup ==
    /\ [][(/\ C2_Differ
           /\ Last(hist).branch # "redundant"
           /\ ~(/\ Last(hist').cand.id = lines.id
                /\ Last(hist').cand.variety # lines.variety))
          => C2_WritesPreviousGroup]_vars
    /\ []C2_GroupOrder

\* the fold of a candidate of another group just wrote the second line
C2_Witness ==
    /\ Len(hist) >= 3
    /\ Last(hist).branch = "flush"
    /\ hist[Len(hist) - 1].branch = "compatible"
    /\ Key(Last(hist).cand) # Key(hist[Len(hist) - 1].cand)
    /\ Len(out) = 2
    /\ Key(Last(out)) = Key(hist[Len(hist) - 1].cand)
    /\ lines = Last(hist).cand

(***************************************************************************)
(* C7: a record yields one candidate per (identifier, alternate allele)    *)
(* pair iff its reference has at most 31 characters, no identifier         *)
(* contains ";" and its annotation payload is not empty; any other record  *)
(* yields no candidate, leaves the current interval and the output as they *)
(* are, and the next record is read.                                       *)
(***************************************************************************)
C7_Kept(r) ==
    /\ Len(r.reference) <= 31
    /\ \A i \in DOMAIN r.id : \A k \in DOMAIN r.id[i] : r.id[i][k] # ";"
    /\ r.info # <<>>
    /\ r.info[1] # <<>>

\* number of times the identifier id is listed in the record
C7_Listed(r, id) == Cardinality({j \in DOMAIN r.id : r.id[j] = id})

C7_ReadStep ==
    nread' = nread + 1 =>
        /\ lines' = lines
        /\ out' = out
        /\ IF C7_Kept(record')
           THEN /\ Len(pending') =
                      Len(record'.id) * Cardinality(Range(record'.alternative))
                /\ \A id \in Range(record'.id), a \in Range(record'.alternative) :
                      Cardinality({k \in DOMAIN pending' : pending'[k] = <<id, a>>})
                          = C7_Listed(record', id)
           ELSE pending' = <<>> /\ pc' = "read"

\* once the loops over a kept record are through, its pairs are the last
\* candidates folded
C7_PairsFolded ==
    (pc = "read" /\ nread > 0 /\ C7_Kept(record)) =>
        LET n == Len(record.id) * Cardinality(Range(record.alternative))
        IN  /\ Len(hist) >= n
            /\ \A id \in Range(record.id), a \in Range(record.alternative) :
                  Cardinality({k \in (Len(hist) - n + 1)..Len(hist) :
                                  /\ Cands[k].id = id
                                  /\ Cands[k].alts = {a}
                                  /\ Cands[k].chromosome = record.chromosome
                                  /\ Cands[k].reference = record.reference})
                      = C7_Listed(record, id)

C7_SkipRules == [][C7_ReadStep]_vars /\ []C7_PairsFolded

\* a record with 32 reference characters was dropped after a record with
\* 31 was folded, the interval of that one still current
C7_Witness ==
    /\ pc = "read"
    /\ Len(record.reference) = 32
    /\ hist # <<>>
    /\ Len(Last(hist).cand.reference) = 31
    /\ lines.alts # {}
    /\ Len(lines.reference) = 31

(***************************************************************************)
(* C8: every candidate starts at the record position; it ends at its start *)
(* for variety "SNV", at start + 1 for "insertion", both whatever the      *)
(* reference length, and at position + reference length - 1 otherwise.     *)
(***************************************************************************)
C8_StartAndEnd ==
    [][FoldStep =>
        LET c == Last(hist').cand
        IN  /\ c.start = record.position
            /\ c.end = IF c.variety = <<"SNV">> THEN c.start
                       ELSE IF c.variety = <<"insertion">> THEN c.start + 1
                       ELSE record.position + Len(record.reference) - 1]_vars

\* an SNV and an insertion whose reference span would give another end, and
\* a candidate of another variety with a reference of several bases
C8_Witness ==
    /\ \E i \in DOMAIN hist :
          Cands[i].variety = <<"SNV">> /\ Len(Cands[i].reference) > 1
    /\ \E i \in DOMAIN hist :
          Cands[i].variety = <<"insertion">> /\ Len(Cands[i].reference) > 2
    /\ \E i \in DOMAIN hist :
          /\ Cands[i].variety \notin {<<"SNV">>, <<"insertion">>}
          /\ Len(Cands[i].reference) > 1
          /\ Cands[i].end > Cands[i].start

(***************************************************************************)
(* C9: over all "&"-separated terms of all transcripts of the record the   *)
(* term of lowest rank is chosen, the first one in iteration order on a    *)
(* tie; the candidate has the variant class of the transcript of that term *)
(* and the group and rank of that term.                                    *)
(***************************************************************************)
\* the terms of the record in iteration order, each with its transcript's
\* variant class
C9_Terms == ZipTerms(CsqOf(record), ClassOf(record))

\* the position of the first term of lowest rank
C9_Chosen ==
    CHOOSE k \in DOMAIN C9_Terms :
        /\ \A j \in DOMAIN C9_Terms :
              SeverityHere(C9_Terms[k].csq) <= SeverityHere(C9_Terms[j].csq)
        /\ \A j \in 1..(k - 1) :
              SeverityHere(C9_Terms[j].csq) > SeverityHere(C9_Terms[k].csq)

C9_LowestRankTermChosen ==
    [][FoldStep =>
        LET c == Last(hist').cand
            t == C9_Terms[C9_Chosen]
        IN  /\ c.severity = t.csq
            /\ c.variety = t.variety_here
            /\ c.group = GetOr(variant_groups, t.csq, 0)
            /\ c.severity_rank = SeverityHere(t.csq)]_vars

(***************************************************************************)
(* C10: a term that is not in the severity table ranks as least severe, so *)
(* a record that has a term of the table and a term outside it never gets  *)
(* the term outside it as its most severe consequence.                     *)
(***************************************************************************)
C10_Absent == {k \in DOMAIN C9_Terms : C9_Terms[k].csq \notin DOMAIN severity}
C10_Present == DOMAIN C9_Terms \ C10_Absent

C10_AbsentTermNotChosen ==
    [][(FoldStep /\ C10_Absent # {} /\ C10_Present # {}) =>
        /\ \A a \in C10_Absent : \A p \in C10_Present :
              SeverityHere(C9_Terms[a].csq) >= SeverityHere(C9_Terms[p].csq)
        /\ \A a \in C10_Absent :
              Last(hist').cand.severity # C9_Terms[a].csq]_vars

(***************************************************************************)
(* C11: for any list of input files the output of merge_bed holds, for     *)
(* each identifier (4th field) of the input, exactly one line: the first   *)
(* line with that identifier in file-then-line order, its 9 fields as they *)
(* are; the output keeps the order of the input and has no identifier      *)
(* twice.                                                                  *)
(***************************************************************************)
\* the space-separated fields of the i-th line read
C11_Fields(i) == Split(mb_read[i].line, " ")

\* the lines read that are the first with their 4th field
C11_Firsts ==
    {i \in DOMAIN mb_read :
        \A j \in 1..(i - 1) : C11_Fields(j)[4] # C11_Fields(i)[4]}

C11_FirstOccurrenceOnly ==
    mb_pc \in {"while", "lines", "done"} =>
        /\ \A i \in DOMAIN mb_read : \A j \in 1..(i - 1) :
              mb_read[j].file <= mb_read[i].file
        /\ Len(bed_out) = Cardinality(C11_Firsts)
        /\ \A i \in C11_Firsts :
              LET k == Cardinality({j \in C11_Firsts : j <= i})
              IN  /\ Split(bed_out[k], " ") = SubSeq(C11_Fields(i), 1, 9)
                  /\ Len(C11_Fields(i)) = 9 => bed_out[k] = mb_read[i].line
        /\ \A a, b \in DOMAIN bed_out :
              a # b => Split(bed_out[a], " ")[4] # Split(bed_out[b], " ")[4]

\* a finished run over two files; a line of the second file has the
\* identifier of another line of the first and was left out
C11_Witness ==
    /\ mb_pc = "done"
    /\ Len(bed_out) = 2
    /\ \E i, j \in DOMAIN mb_read :
          /\ mb_read[i].file < mb_read[j].file
          /\ C11_Fields(i)[4] = C11_Fields(j)[4]
          /\ mb_read[i].line # mb_read[j].line
          /\ Len(C11_Fields(j)) = 9
          /\ bed_out[1] = mb_read[i].line

(***************************************************************************)
(* C12, as stated: writing an interval, parsing the line back (9 fields    *)
(* separated by " ", the alleles by "/") and writing the parsed interval   *)
(* gives the same line again, for every interval the accumulator writes,   *)
(* also with two or more alleles.                                          *)
(***************************************************************************)
\* the number a string of decimal digits denotes, -1 for any other string
RECURSIVE C12_Number(_, _)
C12_Number(s, acc) ==
    IF s = <<>> THEN acc
    ELSE IF DigitValue(Head(s)) = ParseErr THEN -1
    ELSE C12_Number(Tail(s), acc * 10 + DigitValue(Head(s)))

\* the interval a written line is parsed into
C12_Parse(text) ==
    LET f == Split(text, " ")
    IN  [chromosome |-> f[1],
         start |-> IF f[2] = <<>> THEN -1 ELSE C12_Number(f[2], 0),
         end |-> IF f[3] = <<>> THEN -1 ELSE C12_Number(f[3], 0),
         id |-> f[4], variety |-> f[5], reference |-> f[6],
         alts |-> Range(Split(f[7], "/")),
         group |-> IF f[8] = <<>> THEN -1 ELSE C12_Number(f[8], 0),
         severity |-> f[9]]

\* the parsed interval has the fields that were written
C12_ParsedAsWritten(w) ==
    LET p == C12_Parse(LineText(w))
    IN  /\ Len(Split(LineText(w), " ")) = 9
        /\ p = [w EXCEPT !.alts = Range(w.alts)]

\* the lines the emitter can write for the interval parsed from w's line
C12_Rewritten(w) ==
    LET p == C12_Parse(LineText(w))
    IN  {LineText(WrittenLine(p, o)) : o \in Orders(p.alts)}

C12_RoundTripIdentical ==
    \A i \in DOMAIN out :
        /\ C12_ParsedAsWritten(out[i])
        /\ C12_Rewritten(out[i]) = {LineText(out[i])}

(***************************************************************************)
(* C12, amended: the rewritten line is identical for every written         *)
(* interval with one allele; with two or more alleles it has the same      *)
(* fields and the same set of alleles, in an order that may differ.        *)
(***************************************************************************)
C12_RoundTripUpToAlleleOrder ==
    \A i \in DOMAIN out :
        /\ C12_ParsedAsWritten(out[i])
        /\ LineText(out[i]) \in C12_Rewritten(out[i])
        /\ Len(out[i].alts) = 1 => C12_Rewritten(out[i]) = {LineText(out[i])}
        /\ \A t \in C12_Rewritten(out[i]) :
              C12_Parse(t) = C12_Parse(LineText(out[i]))

\* a line with one allele and a line with two were written, one of them
\* with an empty field
C12_Witness ==
    /\ \E i \in DOMAIN out : Len(out[i].alts) = 1 /\ out[i].variety = <<>>
    /\ \E i \in DOMAIN out :
          /\ Len(out[i].alts) = 2
          /\ Cardinality(C12_Rewritten(out[i])) = 2

(***************************************************************************)
(* C13: folding a candidate with the chromosome, start, variety and        *)
(* reference of the current interval writes nothing and leaves chromosome, *)
(* start, identifier, reference and variety as they are; the allele set    *)
(* gains the candidate's allele; group, label and rank change only if the  *)
(* candidate's rank is strictly lower, end only if moreover the            *)
(* candidate's end is greater: end never decreases.                        *)
(***************************************************************************)
C13_Consequence(l) == <<l.group, l.severity, l.severity_rank>>

C13_CompatibleFoldFrame ==
    [][(/\ FoldStep
        /\ Last(hist').cand.chromosome = lines.chromosome
        /\ Last(hist').cand.start = lines.start
        /\ Last(hist').cand.variety = lines.variety
        /\ Last(hist').cand.reference = lines.reference)
       => LET c == Last(hist').cand
          IN  /\ out' = out
              /\ Identity(lines') = Identity(lines)
              /\ lines'.alts = lines.alts \cup c.alts
              /\ C13_Consequence(lines') # C13_Consequence(lines)
                    => /\ c.severity_rank < lines.severity_rank
                       /\ C13_Consequence(lines') = C13_Consequence(c)
              /\ lines'.end # lines.end
                    => /\ c.severity_rank < lines.severity_rank
                       /\ c.end > lines.end
                       /\ lines'.end = c.end
              /\ lines'.end >= lines.end]_vars

\* after compatible folds: one that took rank, group, label and a greater
\* end, and an earlier one of lower rank and greater end than the creating
\* line that is not the last
C13_Witness ==
    /\ Len(hist) = 3
    /\ InstalledAt = {1}
    /\ hist[2].branch = "compatible"
    /\ hist[3].branch = "compatible"
    /\ Cands[2].severity_rank < Cands[1].severity_rank
    /\ Cands[2].end > Cands[1].end
    /\ Cands[3].end < Cands[2].end
    /\ lines.end = Cands[2].end
    /\ C13_Consequence(lines) = C13_Consequence(Cands[2])
    /\ Cardinality(lines.alts) = 2
    /\ out = <<>>

(***************************************************************************)
(* C14: when the run aborts on a fatal error while a record is processed   *)
(* (such as a rank string that fails to parse when its term is looked up), *)
(* no later record is processed and there is no final flush: the output is *)
(* the lines written by the folds completed before, and the interval that  *)
(* was current is not written.                                             *)
(***************************************************************************)
\* the string is an unsigned decimal number of at most 255
C14_IsU8(s) ==
    LET digits == IF s # <<>> /\ s[1] = "+" THEN Tail(s) ELSE s
    IN  /\ digits # <<>>
        /\ C12_Number(digits, 0) \in 0..255

\* a term of the record being processed has a rank string that is no u8
C14_BadRank ==
    \E k \in DOMAIN C9_Terms :
        ~C14_IsU8(IF C9_Terms[k].csq \in DOMAIN severity
                  THEN severity[C9_Terms[k].csq] ELSE <<"0">>)

\* what an aborted run has written: the installed intervals but the last
C14_OutputAtAbort ==
    pc = "aborted" =>
        /\ Len(out) = IF InstalledSeq = <<>> THEN 0 ELSE Len(InstalledSeq) - 1
        /\ \A i \in DOMAIN out : Identity(out[i]) = Identity(InstalledSeq[i].cand)
        /\ lines.alts # {} =>
              /\ Identity(lines) = Identity(Last(InstalledSeq).cand)
              /\ Len(out) < Len(InstalledSeq)

C14_AbortStopsTheRun ==
    /\ [][(pc = "loop" /\ C14_BadRank) =>
            (pc' = "aborted" /\ UNCHANGED <<nread, lines, out, hist>>)]_vars
    /\ [][pc' = "aborted" => (lines' = lines /\ out' = out /\ nread' = nread)]_vars
    /\ [][pc = "aborted" => UNCHANGED vars]_vars
    /\ []C14_OutputAtAbort

\* the run aborted in the loops of a record with an unparsable rank, after
\* it had written a line and with an interval still current
C14_Witness ==
    /\ pc = "aborted"
    /\ pending # <<>>
    /\ C14_BadRank
    /\ Len(out) = 1
    /\ Len(InstalledSeq) = 2
    /\ lines.alts # {}

(***************************************************************************)
(* C15: the candidates of one record agree in chromosome, start, end,      *)
(* variety, reference, group, consequence label and rank, and differ only  *)
(* in identifier and allele.  So the folds of one record write at most one *)
(* line, and once a candidate of the record was merged or installed every  *)
(* later candidate of it takes the compatible branch: a record of several  *)
(* identifiers comes out under one identifier.                             *)
(***************************************************************************)
\* the positions in hist of the candidates of the record in the loops (or
\* of the record just finished)
C15_Own ==
    LET n == IF nread > 0 /\ C7_Kept(record)
             THEN Len(record.id) * Cardinality(Range(record.alternative))
                      - Len(pending)
             ELSE 0
    IN  (Len(hist) - n + 1)..Len(hist)

\* everything of a candidate but identifier and allele
C15_Shared(l) ==
    <<l.chromosome, l.start, l.end, l.variety, l.reference,
      l.group, l.severity, l.severity_rank>>

\* the candidates of the record that were merged or installed
C15_Taken == {i \in C15_Own : hist[i].branch # "redundant"}

C15_State ==
    /\ C15_Own \subseteq DOMAIN hist
    /\ \A i \in C15_Own :
          /\ Cardinality(Cands[i].alts) = 1
          /\ \A j \in C15_Own : C15_Shared(Cands[i]) = C15_Shared(Cands[j])
    /\ Cardinality({i \in C15_Own : hist[i].branch = "flush"}) <= 1
    /\ C15_Taken # {} =>
          LET first == CHOOSE i \in C15_Taken : \A j \in C15_Taken : i <= j
          IN  /\ \A j \in C15_Taken : j > first => hist[j].branch = "compatible"
              /\ hist[first].branch = "flush" => lines.id = Cands[first].id
              /\ \A j \in C15_Taken : Cands[j].alts \subseteq lines.alts

C15_Step ==
    (FoldStep /\ pc = "loop") =>
        /\ out' # out =>
              /\ Len(out') = Len(out) + 1
              /\ C15_Taken = {}
              /\ Last(hist').branch = "flush"
        /\ C15_Taken # {} =>
              /\ Last(hist').branch = "compatible"
              /\ out' = out
              /\ lines'.id = lines.id

C15_OneRecordOneInterval == []C15_State /\ [][C15_Step]_vars

\* a record of two identifiers is through the loops: its first candidate
\* flushed the interval before and was installed, its second was merged
C15_Witness ==
    /\ pc = "read"
    /\ Len(out) = 1
    /\ Cardinality(C15_Own) = 2
    /\ Cands[Len(hist) - 1].id # Cands[Len(hist)].id
    /\ hist[Len(hist) - 1].branch = "flush"
    /\ hist[Len(hist)].branch = "compatible"
    /\ lines.id = Cands[Len(hist) - 1].id

(***************************************************************************)
(* C16: when every kept record has a reference allele of at least one      *)
(* character, every line written has start <= end, whatever merges,        *)
(* discards and flushes came before: the line with start 1 and end 0 that  *)
(* main starts with is never written, and position + reference length - 1 *)
(* does not go below zero.                                                 *)
(***************************************************************************)
\* every record folded so far has a reference allele
C16_ReferenceGiven == \A i \in DOMAIN hist : Len(Cands[i].reference) >= 1

C16_StartNotAfterEnd ==
    C16_ReferenceGiven =>
        /\ \A i \in DOMAIN out :
              /\ out[i].start <= out[i].end
              /\ out[i].alts # <<>>
              /\ <<out[i].start, out[i].end>> # <<SentinelLine.start, SentinelLine.end>>
        /\ lines.alts # {} => lines.start <= lines.end
        /\ \A i \in DOMAIN hist :
              /\ Cands[i].start + Len(Cands[i].reference) - 1 >= 0
              /\ Cands[i].start <= Cands[i].end

\* the run ended after a merge, a discard and flushes: an insertion with a
\* reference of three characters and an SNV are among the lines written
C16_Witness ==
    /\ pc = "done"
    /\ C16_ReferenceGiven
    /\ \E i \in DOMAIN hist : hist[i].branch = "compatible"
    /\ \E i \in DOMAIN hist : hist[i].branch = "redundant"
    /\ \E i \in DOMAIN out :
          /\ out[i].variety = <<"insertion">>
          /\ Len(out[i].reference) = 3
          /\ out[i].end = out[i].start + 1
    /\ \E i \in DOMAIN out :
          /\ out[i].variety = <<"SNV">>
          /\ out[i].end = out[i].start

====
